---- MODULE Spec2Model ----
(***************************************************************************)
(* Adaptive scalar Kalman filter with an unknown measurement-noise         *)
(* variance (adaptive_kalman_filter_scalar_tiny_plot.ipynb).               *)
(*                                                                         *)
(* The notebook's cells run top to bottom: the initialisation cell, the    *)
(* precomputation cell, the two function definitions and the main loop;    *)
(* a cell that raises ends the run (pc = "error").                         *)
(* Numbers are modelled as exact rationals <<numerator, denominator>> in   *)
(* lowest terms with a positive denominator, i.e. the real arithmetic the  *)
(* floating-point code approximates.  The simulated trajectory (x, w, v)   *)
(* only serves to produce ynew = H*x + v with Gaussian v, so ynew is any   *)
(* real number; the model draws it from YSet.                              *)
(***************************************************************************)
EXTENDS Integers, Sequences, FiniteSets, TLC

\* Number of loop iterations; the notebook runs T = 100000 of them.
MaxT == 3

----------------------------------------------------------------------------
(* Exact rational arithmetic *)

Abs(n) == IF n < 0 THEN -n ELSE n

RECURSIVE GCD(_, _)
GCD(a, b) == IF b = 0 THEN a ELSE GCD(b, a % b)

\* gcd used for reduction; 1 when both arguments are 0
Red(a, b) == LET g == GCD(Abs(a), Abs(b)) IN IF g = 0 THEN 1 ELSE g

Norm(n, d) ==
    IF d = 0 THEN <<n, 0>>
    ELSE LET g == Red(n, d)
             s == IF d < 0 THEN -1 ELSE 1
         IN  <<s * (n \div g), s * (d \div g)>>

Rat(n)  == <<n, 1>>
Zero    == Rat(0)
One     == Rat(1)
\* a name that has not been assigned yet (a Python NameError if read)
Unbound == <<0, 0>>

RNeg(a) == <<-a[1], a[2]>>

RAdd(a, b) ==
    LET g == Red(a[2], b[2])
    IN  Norm(a[1] * (b[2] \div g) + b[1] * (a[2] \div g), (a[2] \div g) * b[2])

RSub(a, b) == RAdd(a, RNeg(b))

RMul(a, b) ==
    LET g1 == Red(a[1], b[2])
        g2 == Red(b[1], a[2])
    IN  Norm((a[1] \div g1) * (b[1] \div g2), (a[2] \div g2) * (b[2] \div g1))

\* a / b; callers test b # 0 first, as Python raises ZeroDivisionError there
RDiv(a, b) == RMul(a, Norm(b[2], b[1]))

RPos(a)  == a[1] > 0
RNonNeg(a) == a[1] >= 0
RIsZero(a) == a[1] = 0


----------------------------------------------------------------------------
(* Parameter and input ranges *)

T == MaxT

\* F, H, Q, R = 0.5, 2, 4, 10 in the notebook; any real scalars in general.
\* Small integers keep the exact fractions within TLC's integer range.
FSet == {Rat(-1), Rat(1)}
HSet == {Zero, Rat(1), Rat(2)}
QSet == {Rat(-1), Zero, Rat(1)}
\* x_post, P_post, R_est, L = 0, 100, 100, 0
PSet == {Rat(-1), Zero, Rat(1)}
RSet == {Rat(-1), Zero, Rat(1)}
LSet == {Zero, Rat(1)}
\* measurements ynew = H*x + v
YSet == {Rat(-1), Zero, Rat(1)}

VARIABLES
    F, H, Q,            \* system model
    x_post, P_post,     \* state estimate and its error variance
    R_est, L,           \* noise-variance estimate and running mean
    R_est_history,      \* R_est recorded per step
    Mopi, S, CW,        \* precomputed constants
    k, ynew, yold,      \* loop variables
    R_est_new,          \* last candidate returned by the noise update
    pc, err,            \* position in the notebook, error raised
    prior,              \* the values given in the initialisation cell
    y_hist,             \* measurements received so far
    n_noise, n_state,   \* calls of the two functions so far
    n_rec,              \* entries of R_est_history written so far
    R_used, y_state,    \* globals read by the last state_estimation call
    y_noise,            \* y_new passed to the last noise update
    den,                \* last gain denominator H*P_pre*H + R_est
    alt                 \* second run: same inputs, different initial L

vars == <<F, H, Q, x_post, P_post, R_est, L, R_est_history, Mopi, S, CW,
          k, ynew, yold, R_est_new, pc, err, prior, y_hist, n_noise,
          n_state, n_rec, R_used, y_state, y_noise, den, alt>>

model   == <<F, H, Q>>
consts  == <<Mopi, S, CW>>
ghosts  == <<prior, y_hist, n_noise, n_state, n_rec, R_used, y_state, y_noise, den>>

----------------------------------------------------------------------------
(* Initialisation cell *)

Init ==
    /\ F \in FSet /\ H \in HSet /\ Q \in QSet
    /\ x_post = Zero
    /\ P_post \in PSet
    /\ R_est \in RSet
    /\ L \in LSet
    /\ R_est_history = [i \in 0..(T - 1) |-> Zero]
    /\ Mopi = Unbound /\ S = Unbound /\ CW = Unbound
    /\ k = 0 /\ ynew = Unbound /\ yold = Unbound /\ R_est_new = Unbound
    /\ pc = "precompute" /\ err = "none"
    /\ prior = [x_post |-> x_post, P_post |-> P_post, R_est |-> R_est, L |-> L]
    /\ y_hist = <<>>
    /\ n_noise = 0 /\ n_state = 0 /\ n_rec = 0
    /\ R_used = Unbound /\ y_state = Unbound /\ y_noise = Unbound
    /\ den = Unbound
    /\ \E L2 \in LSet \ {L} :
          alt = [x_post |-> x_post, P_post |-> P_post, R_est |-> R_est,
                 L |-> L2, L0 |-> L2]

----------------------------------------------------------------------------
(* Precomputation cell *)

\* variant: the division yields a value for every H (no error is raised)
MopiAlwaysDefined(h) == TRUE

\* Mopi = 1/H raises ZeroDivisionError when H = 0
MopiDefined(h) == ~RIsZero(h)

Precompute ==
    /\ pc = "precompute"
    /\ IF MopiDefined(H)
       THEN LET mopi  == RDiv(One, H)
                A1    == One
                B1    == RMul(RNeg(F), mopi)
                B2    == mopi
                kronA == RMul(A1, A1)
                kronB == RAdd(RMul(B1, B1), RMul(B2, B2))
            IN  /\ Mopi' = mopi
                /\ S' = kronB
                /\ CW' = RMul(kronA, Q)
                /\ pc' = "loop"
                /\ err' = err
       ELSE /\ pc' = "error"
            /\ err' = "ZeroDivisionError"
            /\ UNCHANGED consts
    /\ UNCHANGED <<model, x_post, P_post, R_est, L, R_est_history, k, ynew,
                   yold, R_est_new, ghosts, alt>>

----------------------------------------------------------------------------
(* The two functions *)

\* variant: running-mean weights shifted by one, k/(k+1) and 1/(k+1)
nce_shifted_weights(y_new, y_old, Lin) ==
    LET Z    == RMul(Mopi, RSub(y_new, RMul(F, y_old)))
        Lout == RAdd(RDiv(RMul(Lin, Rat(k)), Rat(k + 1)),
                     RDiv(RMul(Z, Z), Rat(k + 1)))
    IN  <<RDiv(RSub(Lout, CW), S), Lout>>

\* variant: the innovation adds F*y_old instead of subtracting it
nce_sign_slip(y_new, y_old, Lin) ==
    LET Z    == RMul(Mopi, RAdd(y_new, RMul(F, y_old)))
        Lout == RAdd(RDiv(RMul(Lin, Rat(k - 1)), Rat(k)),
                     RDiv(RMul(Z, Z), Rat(k)))
    IN  <<RDiv(RSub(Lout, CW), S), Lout>>

\* returns <<(L-CW)/S, L>>; reads the globals Mopi, F, k, CW, S
noise_covariance_estimation(y_new, y_old, Lin) ==
    LET Z    == RMul(Mopi, RSub(y_new, RMul(F, y_old)))
        Lout == RAdd(RDiv(RMul(Lin, Rat(k - 1)), Rat(k)),
                     RDiv(RMul(Z, Z), Rat(k)))
    IN  <<RDiv(RSub(Lout, CW), S), Lout>>

\* variant: the noise term is subtracted
JosephFormMinus(IKH, P_pre, K, R) ==
    RSub(RMul(RMul(IKH, P_pre), IKH), RMul(RMul(K, R), K))

\* P_post = IKH*P_pre*IKH + K*R_est*K
JosephForm(IKH, P_pre, K, R) ==
    RAdd(RMul(RMul(IKH, P_pre), IKH), RMul(RMul(K, R), K))

\* reads the globals F, Q, H, ynew and R_est (passed here as R)
state_estimation(xp, Pp, R) ==
    LET x_pre == RMul(F, xp)
        P_pre == RAdd(RMul(RMul(F, Pp), F), Q)
        d     == RAdd(RMul(RMul(H, P_pre), H), R)
        K     == RDiv(RMul(P_pre, H), d)
        x_new == RAdd(x_pre, RMul(K, RSub(ynew, RMul(H, x_pre))))
        IKH   == RSub(One, RMul(K, H))
        P_new == JosephForm(IKH, P_pre, K, R)
    IN  [den |-> d, x_post |-> x_new, P_post |-> P_new]

----------------------------------------------------------------------------
(* Main loop *)

\* variant: R_est is recorded before the noise update of the iteration
PcAfterRecordFirst(p) ==
    CASE p = "loop"    -> "record"
      [] p = "record"  -> "noise"
      [] p = "noise"   -> "state"
      [] p = "state"   -> "advance"
      [] p = "advance" -> "loop"

\* order of the statements of one iteration
PcAfter(p) ==
    CASE p = "loop"    -> "noise"
      [] p = "noise"   -> "record"
      [] p = "record"  -> "state"
      [] p = "state"   -> "advance"
      [] p = "advance" -> "loop"

\* variants: the update starts one iteration late / runs in every iteration
NoiseGuardLate(i) == i > 1
NoiseGuardAlways(i) == i >= 0

\* if k > 0:
NoiseGuard(i) == i > 0

\* variant: every candidate is taken
AcceptAlways(c) == TRUE

\* if R_est_new > 0:
Accept(c) == RPos(c)

\* variant: a candidate of exactly 0 is taken too
AcceptanceRuleNonNeg(c, R) == IF RNonNeg(c) THEN c ELSE R

\* if R_est_new > 0: R_est = R_est_new   (otherwise R_est is left alone)
AcceptanceRule(c, R) == IF Accept(c) THEN c ELSE R

\* for k in range(T): ... ynew = H*x + v
NextMeasurement ==
    /\ pc = "loop"
    /\ k < T
    /\ \E y \in YSet :
          /\ ynew' = y
          /\ y_hist' = Append(y_hist, y)
    /\ pc' = PcAfter("loop")
    /\ UNCHANGED <<model, consts, x_post, P_post, R_est, L, R_est_history, k,
                   yold, R_est_new, err, prior, n_noise, n_state, n_rec,
                   R_used, y_state, y_noise, den, alt>>

LoopExit ==
    /\ pc = "loop"
    /\ k >= T
    /\ pc' = "done"
    /\ UNCHANGED <<model, consts, x_post, P_post, R_est, L, R_est_history, k,
                   ynew, yold, R_est_new, err, ghosts, alt>>

\* if k > 0: R_est_new, L = noise_covariance_estimation(ynew, yold, L)
\*           if R_est_new > 0: R_est = R_est_new
NoiseUpdate ==
    /\ pc = "noise"
    /\ NoiseGuard(k)
    /\ IF k = 0
       THEN \* unreachable under k > 0: yold is not bound yet and k divides
            /\ pc' = "error"
            /\ err' = "NameError"
            /\ UNCHANGED <<R_est_new, L, R_est, alt, n_noise, y_noise>>
       ELSE LET r == noise_covariance_estimation(ynew, yold, L)
                a == noise_covariance_estimation(ynew, yold, alt.L)
            IN  /\ R_est_new' = r[1]
                /\ L' = r[2]
                /\ R_est' = AcceptanceRule(r[1], R_est)
                /\ alt' = [alt EXCEPT !.L = a[2],
                                      !.R_est = AcceptanceRule(a[1], @)]
                /\ n_noise' = n_noise + 1
                /\ y_noise' = ynew
                /\ pc' = PcAfter("noise")
                /\ err' = err
    /\ UNCHANGED <<model, consts, x_post, P_post, R_est_history, k, ynew,
                   yold, prior, y_hist, n_state, n_rec, R_used, y_state, den>>

NoiseSkip ==
    /\ pc = "noise"
    /\ ~NoiseGuard(k)
    /\ pc' = PcAfter("noise")
    /\ UNCHANGED <<model, consts, x_post, P_post, R_est, L, R_est_history, k,
                   ynew, yold, R_est_new, err, ghosts, alt>>

\* R_est_history[k] = R_est
Record ==
    /\ pc = "record"
    /\ R_est_history' = [R_est_history EXCEPT ![k] = R_est]
    /\ n_rec' = n_rec + 1
    /\ pc' = PcAfter("record")
    /\ UNCHANGED <<model, consts, x_post, P_post, R_est, L, k, ynew, yold,
                   R_est_new, err, prior, y_hist, n_noise, n_state, R_used,
                   y_state, y_noise, den, alt>>

\* x_post, P_post = state_estimation(x_post, P_post)
\* A zero denominator has no finite gain: Python numbers raise
\* ZeroDivisionError (numpy operands, as R_est is after an accepted
\* candidate, yield inf or nan instead); the run counts as failed.
StateEstimation ==
    /\ pc = "state"
    /\ LET r == state_estimation(x_post, P_post, R_est)
           a == state_estimation(alt.x_post, alt.P_post, alt.R_est)
       IN  /\ den' = r.den
           /\ IF RIsZero(r.den)
              THEN /\ pc' = "error"
                   /\ err' = "ZeroDivisionError"
                   /\ UNCHANGED <<x_post, P_post, alt>>
              ELSE /\ x_post' = r.x_post
                   /\ P_post' = r.P_post
                   /\ alt' = [alt EXCEPT !.x_post = a.x_post,
                                         !.P_post = a.P_post]
                   /\ pc' = PcAfter("state")
                   /\ err' = err
    /\ n_state' = n_state + 1
    /\ R_used' = R_est
    /\ y_state' = ynew
    /\ UNCHANGED <<model, consts, R_est, L, R_est_history, k, ynew, yold,
                   R_est_new, prior, y_hist, n_noise, n_rec, y_noise>>

\* yold = np.copy(ynew); the for statement then binds the next k
Advance ==
    /\ pc = "advance"
    /\ yold' = ynew
    /\ k' = k + 1
    /\ pc' = PcAfter("advance")
    /\ UNCHANGED <<model, consts, x_post, P_post, R_est, L, R_est_history,
                   ynew, R_est_new, err, ghosts, alt>>

Next ==
    \/ Precompute
    \/ NextMeasurement
    \/ LoopExit
    \/ NoiseUpdate
    \/ NoiseSkip
    \/ Record
    \/ StateEstimation
    \/ Advance

Spec == Init /\ [][Next]_vars

----------------------------------------------------------------------------
(* Properties *)

RLeZero(a) == a[1] <= 0

\* Z_i = (1/H)*(y_i - F*y_{i-1}), recomputed from the stored measurements
\* (y_i is y_hist[i + 1])
ZAt(i) == RMul(RDiv(One, H), RSub(y_hist[i + 1], RMul(F, y_hist[i])))

RECURSIVE SumZ2(_)
SumZ2(n) == IF n = 0 THEN Zero ELSE RAdd(SumZ2(n - 1), RMul(ZAt(n), ZAt(n)))

MeanZ2(n) == RDiv(SumZ2(n), Rat(n))

\* C1: with a positive prior R_est, R_est is > 0 in every reachable state:
\* the global itself, every entry recorded in R_est_history, and the value
\* read by the last state_estimation call.
C1_RestPositive ==
    RPos(prior.R_est) =>
        /\ RPos(R_est)
        /\ \A i \in 0..(T - 1) : i < n_rec => RPos(R_est_history[i])
        /\ (n_state > 0 => RPos(R_used))

\* a run with a positive prior in which the candidate of step 1 was
\* rejected (Z_1 = 0) and the candidate of step 2 was accepted
C1_Witness ==
    /\ RPos(prior.R_est)
    /\ pc = "advance" /\ k = 2
    /\ y_hist[1] = Zero /\ y_hist[2] = Zero
    /\ R_est_history[1] = prior.R_est
    /\ RPos(R_est_new)
    /\ R_est # prior.R_est
    /\ R_used = R_est /\ R_est_history[2] = R_est

\* C2: after the k-th call of noise_covariance_estimation, L is the
\* arithmetic mean of Z_i^2 over i = 1..k, Z_i computed from measurement i
\* and the one before it, whether or not candidates were rejected.
C2_RunningMean ==
    n_noise >= 1 => L = MeanZ2(n_noise)

\* two updates done, the first candidate rejected (R_est recorded in step 1
\* is still the prior), the second one accepted
C2_Witness ==
    /\ n_noise = 2 /\ pc = "record"
    /\ RLeZero(RDiv(RSub(MeanZ2(1), CW), S))
    /\ R_est_history[1] = prior.R_est
    /\ RPos(R_est_new)
    /\ RPos(L)

\* C3: with prior P_post >= 0, Q >= 0 and prior R_est > 0, P_post is >= 0
\* after every step.
C3_PpostNonNeg ==
    (RNonNeg(prior.P_post) /\ RNonNeg(Q) /\ RPos(prior.R_est)) => RNonNeg(P_post)

\* three state estimations done under those priors, the last one after an
\* accepted candidate
C3_Witness ==
    /\ RNonNeg(prior.P_post) /\ RNonNeg(Q) /\ RPos(prior.R_est)
    /\ n_state = 3 /\ pc = "advance"
    /\ RPos(R_est_new) /\ R_used = R_est_new
    /\ RPos(P_post)

\* C4: a noise update always replaces L by the updated running mean; it
\* leaves R_est as it was when the candidate (L - CW)/S is <= 0 and sets
\* R_est to the candidate when it is > 0.
C4_AcceptanceFrame ==
    [][ n_noise' = n_noise + 1 =>
          /\ L' = MeanZ2(n_noise')
          /\ R_est_new' = RDiv(RSub(L', CW), S)
          /\ (RLeZero(R_est_new') => R_est' = R_est)
          /\ (RPos(R_est_new') => R_est' = R_est_new') ]_vars

\* right after an update whose candidate was rejected: R_est is still the
\* prior while L has moved
C4_Witness ==
    /\ pc = "record" /\ n_noise = 1
    /\ RLeZero(R_est_new)
    /\ R_est = prior.R_est
    /\ L # prior.L

\* C5: step 0 does not invoke the noise update (R_est and L keep their
\* initial values through step 0 and its state estimation reads the prior
\* R_est); every step k >= 1 invokes it exactly once.
C5_NoUpdateAtStepZero ==
    /\ (k = 0 \/ (k = 1 /\ pc \in {"loop", "noise"})) =>
          /\ n_noise = 0
          /\ R_est = prior.R_est
          /\ L = prior.L
          /\ (n_state = 1 => R_used = prior.R_est)
    /\ (pc \in {"record", "state", "advance"} => n_noise = k)
    /\ (pc \in {"loop", "noise"} /\ k >= 1 => n_noise = k - 1)
    /\ (pc = "done" => n_noise = T - 1)

\* step 1 has updated R_est, after step 0 had run its state estimation
C5_Witness ==
    /\ k = 1 /\ pc = "record"
    /\ n_noise = 1 /\ n_state = 1
    /\ R_used = prior.R_est
    /\ R_est # prior.R_est

\* C6: a prior R_est <= 0 or P_post <= 0 is rejected at construction: no
\* filter step runs and no estimate is produced.
C6_NonPositivePriorRejected ==
    (RLeZero(prior.R_est) \/ RLeZero(prior.P_post)) =>
        /\ pc \in {"precompute", "error"}
        /\ n_state = 0 /\ n_noise = 0 /\ n_rec = 0

\* C7: H = 0 is rejected when the derived constants are computed: the run
\* ends in an error before the first loop step.
C7_ZeroHRejected ==
    RIsZero(H) =>
        /\ pc \in {"precompute", "error"}
        /\ (pc = "error" => err = "ZeroDivisionError")
        /\ Mopi = Unbound /\ S = Unbound /\ CW = Unbound
        /\ k = 0 /\ y_hist = <<>>
        /\ n_noise = 0 /\ n_state = 0 /\ n_rec = 0

C7_Witness ==
    RIsZero(H) /\ pc = "error"

\* C8 as stated: for H # 0, prior P_post >= 0, prior R_est > 0 and any real
\* F and Q, no step divides by zero and the gain denominator is > 0.
C8_TotalAnyQ ==
    (~RIsZero(H) /\ RNonNeg(prior.P_post) /\ RPos(prior.R_est)) =>
        /\ pc # "error"
        /\ (n_noise > 0 => k >= 1)
        /\ (n_state > 0 => RPos(den))

\* C8 (amended): for H # 0, prior P_post >= 0, prior R_est > 0 and Q >= 0,
\* no step divides by zero: the running mean divides by k >= 1 only and the
\* gain denominator H*P_pre*H + R_est is > 0 in every state estimation.
C8_TotalNonNegQ ==
    (~RIsZero(H) /\ RNonNeg(prior.P_post) /\ RPos(prior.R_est) /\ RNonNeg(Q)) =>
        /\ pc # "error"
        /\ (n_noise > 0 => k >= 1)
        /\ (n_state > 0 => RPos(den))

\* a complete run under those priors, with P_post driven to 0 meanwhile
C8_Witness ==
    /\ ~RIsZero(H) /\ RNonNeg(prior.P_post) /\ RPos(prior.R_est) /\ RNonNeg(Q)
    /\ pc = "done" /\ n_state = T /\ n_noise = T - 1
    /\ RIsZero(P_post)
    /\ RPos(den)

\* C9: in step k the noise update comes first, then the recording, then the
\* state estimation, then yold <- ynew: the R_est read by state_estimation
\* is the one refreshed in this step and equals R_est_history[k], and both
\* functions consume the measurement of step k.
C9_StepOrder ==
    /\ (pc = "advance" =>
          /\ n_rec = k + 1 /\ n_state = k + 1
          /\ R_used = R_est_history[k]
          /\ y_state = y_hist[k + 1]
          /\ (k > 0 =>
                /\ n_noise = k
                /\ y_noise = y_state
                /\ yold = y_hist[k]
                /\ R_used = (IF RPos(R_est_new) THEN R_est_new
                                                ELSE R_est_history[k - 1])))
    /\ (pc = "loop" /\ k > 0 => yold = y_hist[k])

\* state estimation of step 1 has read an R_est accepted in step 1
C9_Witness ==
    /\ pc = "advance" /\ k = 1
    /\ RPos(R_est_new)
    /\ R_used = R_est_new
    /\ R_used # R_est_history[0]

\* C10: the run started from a different initial L produces the same
\* x_post, P_post and R_est at every step and the same L after every
\* update.
C10_InitialLIrrelevant ==
    /\ alt.L0 # prior.L
    /\ x_post = alt.x_post
    /\ P_post = alt.P_post
    /\ R_est = alt.R_est
    /\ (n_noise >= 1 => L = alt.L)
    /\ (n_noise = 0 => L = prior.L /\ alt.L = alt.L0)

\* both runs complete with an accepted estimate
C10_Witness ==
    /\ pc = "done" /\ n_noise = T - 1
    /\ alt.L0 # prior.L
    /\ RPos(R_est_new) /\ R_est = R_est_new
    /\ alt.R_est = R_est /\ alt.L = L
    /\ ~RIsZero(x_post)

====
